---- MODULE Spec2Model ----
(***************************************************************************)
(* The certificate generator of src/main.py: a cookie-gated FastAPI app    *)
(* whose POST /generate fills an SVG template by string replacement and    *)
(* captures it to static/cert_<ID>.png through one shared headless         *)
(* browser.                                                                *)
(*                                                                         *)
(* Text is modelled character by character: a Python str is a sequence of  *)
(* one-character strings (one element per code point, which is what len()  *)
(* counts), so that str.replace, len and base64 are computed as the code   *)
(* computes them.  A pandas cell is such a sequence or NAN (an empty CSV   *)
(* cell).  Cookie values, passwords, student IDs and file names are only   *)
(* compared or concatenated whole and are kept as plain strings.           *)
(***************************************************************************)
EXTENDS Integers, Sequences, FiniteSets, TLC

(***************************************************************************)
(* Bounds of the model.                                                    *)
(***************************************************************************)
\* Number of POST /generate requests that may be in flight together.
MaxReq == 2

(***************************************************************************)
(* Configuration (src/main.py lines 14-21) and literals of generate.       *)
(***************************************************************************)
ADMIN_PASSWORD == "secret_password_123"

SESSION_TOKEN == "valid_session_token"

\* max_age of the session cookie, in seconds.
COOKIE_MAX_AGE == 604800

\* Length thresholds of the text scaling heuristic.
EN_THRESHOLD == 25

CN_THRESHOLD == 15

\* xibaobackground.jpg
BG_NAME ==
    <<"x", "i", "b", "a", "o", "b", "a", "c", "k", "g", "r", "o", "u", "n", "d", ".",
       "j", "p", "g">>

\* data:image/jpeg;base64,
DATA_URI_PREFIX ==
    <<"d", "a", "t", "a", ":", "i", "m", "a", "g", "e", "/", "j", "p", "e", "g", ";",
       "b", "a", "s", "e", "6", "4", ",">>

\* textLength="1600" lengthAdjust="spacingAndGlyphs"
COMPRESS_ATTR ==
    <<"t", "e", "x", "t", "L", "e", "n", "g", "t", "h", "=", "\"", "1", "6", "0", "0",
       "\"", " ", "l", "e", "n", "g", "t", "h", "A", "d", "j", "u", "s", "t", "=",
       "\"", "s", "p", "a", "c", "i", "n", "g", "A", "n", "d", "G", "l", "y", "p", "h",
       "s", "\"">>

\* {{UNI_EN_ATTR}}
TOK_UNI_EN_ATTR ==
    <<"{", "{", "U", "N", "I", "_", "E", "N", "_", "A", "T", "T", "R", "}", "}">>

\* {{UNI_CN_ATTR}}
TOK_UNI_CN_ATTR ==
    <<"{", "{", "U", "N", "I", "_", "C", "N", "_", "A", "T", "T", "R", "}", "}">>

\* {{UNI_CN}}
TOK_UNI_CN ==
    <<"{", "{", "U", "N", "I", "_", "C", "N", "}", "}">>

\* {{UNI_EN}}
TOK_UNI_EN ==
    <<"{", "{", "U", "N", "I", "_", "E", "N", "}", "}">>

\* {{NAME_CN}}
TOK_NAME_CN ==
    <<"{", "{", "N", "A", "M", "E", "_", "C", "N", "}", "}">>

\* {{NAME_EN}}
TOK_NAME_EN ==
    <<"{", "{", "N", "A", "M", "E", "_", "E", "N", "}", "}">>

\* The selector of page.query_selector("svg") matches an element whose tag
\* opens with these characters.
SVG_TAG ==
    <<"<", "s", "v", "g">>

\* The base64 alphabet of base64.b64encode.
B64_ALPHABET ==
    <<"A", "B", "C", "D", "E", "F", "G", "H", "I", "J", "K", "L", "M", "N", "O", "P",
       "Q", "R", "S", "T", "U", "V", "W", "X", "Y", "Z", "a", "b", "c", "d", "e", "f",
       "g", "h", "i", "j", "k", "l", "m", "n", "o", "p", "q", "r", "s", "t", "u", "v",
       "w", "x", "y", "z", "0", "1", "2", "3", "4", "5", "6", "7", "8", "9", "+", "/">>

(***************************************************************************)
(* Python values.                                                          *)
(***************************************************************************)
\* An absent value: request.cookies.get(...) without the cookie, the result
\* of get_image_base64 without the file.  Optional plain values are sets
\* with at most one element.
None == {}

Some(v) == {v}

\* An empty CSV cell as pandas reads it.  No str equals it: the element is
\* not a single character.
NAN == <<"NaN">>

\* str(v) of a cell: a str is itself, NaN prints as "nan".
Str(v) == IF v = NAN THEN <<"n", "a", "n">> ELSE v

\* s[i:] for a 1-based i.
Drop(s, i) == SubSeq(s, i, Len(s))

\* sub in s
Contains(s, sub) == \E i \in 1..(Len(s) - Len(sub) + 1) : SubSeq(s, i, i + Len(sub) - 1) = sub

\* s.find(sub) as a 1-based position, 0 when sub is not in s.
Find(s, sub) ==
    LET at == {i \in 1..(Len(s) - Len(sub) + 1) : SubSeq(s, i, i + Len(sub) - 1) = sub}
    IN  IF at = {} THEN 0 ELSE CHOOSE i \in at : \A j \in at : i <= j

\* s.replace(old, new) for a non-empty old: every occurrence, found left to
\* right without overlap, the replacement text not being searched again.
RECURSIVE Replace(_, _, _)
Replace(s, old, new) ==
    LET i == Find(s, old) IN
    IF i = 0 THEN s
    ELSE SubSeq(s, 1, i - 1) \o new \o Replace(Drop(s, i + Len(old)), old, new)

\* base64.b64encode(bytes).decode("utf-8"): three bytes give four characters,
\* a last group of one or two bytes is padded with "=".
RECURSIVE b64encode(_)
b64encode(bytes) ==
    LET c(n) == B64_ALPHABET[n + 1] IN
    IF Len(bytes) = 0 THEN <<>>
    ELSE IF Len(bytes) = 1
         THEN <<c(bytes[1] \div 4), c((bytes[1] % 4) * 16), "=", "=">>
    ELSE IF Len(bytes) = 2
         THEN <<c(bytes[1] \div 4), c((bytes[1] % 4) * 16 + bytes[2] \div 16),
                c((bytes[2] % 16) * 4), "=">>
    ELSE <<c(bytes[1] \div 4), c((bytes[1] % 4) * 16 + bytes[2] \div 16),
           c((bytes[2] % 16) * 4 + bytes[3] \div 64), c(bytes[3] % 64)>>
         \o b64encode(Drop(bytes, 4))

(***************************************************************************)
(* The files beside main.py.  uni.csv and namelist.csv as load_data        *)
(* returns them (rows in file order), the SVG template and the background  *)
(* image.  One element of a Chinese name stands for one code point.        *)
(***************************************************************************)
\* A name of exactly n characters that starts with the given characters.
Pad(s, n) == s \o [i \in 1..(n - Len(s)) |-> "-"]

\* Tsinghua University
TSINGHUA_EN ==
    <<"T", "s", "i", "n", "g", "h", "u", "a", " ", "U", "n", "i", "v", "e", "r", "s",
       "i", "t", "y">>

\* uni.csv: names on both sides of both thresholds, an empty Chinese cell,
\* and a second row with the English name of the first.
UniDf ==
    << [en |-> TSINGHUA_EN,           cn |-> <<"Q", "H", "D", "X">>],
       [en |-> Pad(<<"A">>, 25),      cn |-> Pad(<<"a">>, 15)],
       [en |-> Pad(<<"B">>, 26),      cn |-> Pad(<<"b">>, 15)],
       [en |-> Pad(<<"C">>, 25),      cn |-> Pad(<<"c">>, 16)],
       [en |-> Pad(<<"D">>, 26),      cn |-> Pad(<<"d">>, 16)],
       [en |-> Pad(<<"E">>, 24),      cn |-> NAN],
       [en |-> TSINGHUA_EN,           cn |-> Pad(<<"q">>, 14)] >>

\* namelist.csv: the last two rows have a cell that is placeholder text and
\* an empty cell.
NameDf ==
    << [NAME_CN |-> <<"Z", "S">>, NAME_EN |-> <<"S", "a", "n">>,
        FAM_NAME |-> <<"Z", "h", "a", "n", "g">>, ID |-> "S001"],
       [NAME_CN |-> <<"L", "S">>, NAME_EN |-> <<"S", "i">>,
        FAM_NAME |-> <<"L", "i">>, ID |-> "S002"],
       [NAME_CN |-> <<"W", "L">>, NAME_EN |-> <<"L", "i", "u">>,
        FAM_NAME |-> TOK_UNI_EN, ID |-> "S003"],
       [NAME_CN |-> <<"Z", "Q">>, NAME_EN |-> NAN,
        FAM_NAME |-> <<"Z", "h", "a", "o">>, ID |-> "S004"] >>

\* Form values that match no row.
NO_STUDENT == <<"N", "o", "b", "o", "d", "y">>

NO_UNI == <<"N", "o", "w", "h", "e", "r", "e">>

\* The form values a client submits: every name of the datasets and one
\* that is in neither, and the first rows only.
AllStudentNames == {NameDf[i].NAME_CN : i \in DOMAIN NameDf} \cup {NO_STUDENT}

AllUniNames == {UniDf[i].en : i \in DOMAIN UniDf} \cup {NO_UNI}

FewStudentNames == {NameDf[1].NAME_CN, NameDf[2].NAME_CN, NO_STUDENT}

FewUniNames == {UniDf[1].en, UniDf[3].en, NO_UNI}

\* xibaov1.svg: the full template, one without the optional attribute
\* placeholders that names the background twice, and one with no svg element.
TPL_FULL ==
    <<"<", "s", "v", "g", ">", "<", "i", "m", "a", "g", "e", " ", "h", "r", "e", "f",
       "=", "\"", "x", "i", "b", "a", "o", "b", "a", "c", "k", "g", "r", "o", "u", "n",
       "d", ".", "j", "p", "g", "\"", "/", ">", "<", "t", "e", "x", "t", " ", "{", "{",
       "U", "N", "I", "_", "E", "N", "_", "A", "T", "T", "R", "}", "}", ">", "{", "{",
       "U", "N", "I", "_", "E", "N", "}", "}", "<", "/", "t", "e", "x", "t", ">", "<",
       "t", "e", "x", "t", " ", "{", "{", "U", "N", "I", "_", "C", "N", "_", "A", "T",
       "T", "R", "}", "}", ">", "{", "{", "U", "N", "I", "_", "C", "N", "}", "}", "<",
       "/", "t", "e", "x", "t", ">", "<", "t", "e", "x", "t", ">", "{", "{", "N", "A",
       "M", "E", "_", "C", "N", "}", "}", "<", "/", "t", "e", "x", "t", ">", "<", "t",
       "e", "x", "t", ">", "{", "{", "N", "A", "M", "E", "_", "E", "N", "}", "}", "<",
       "/", "t", "e", "x", "t", ">", "<", "/", "s", "v", "g", ">">>

TPL_PLAIN ==
    <<"<", "s", "v", "g", ">", "<", "i", "m", "a", "g", "e", " ", "h", "r", "e", "f",
       "=", "\"", "x", "i", "b", "a", "o", "b", "a", "c", "k", "g", "r", "o", "u", "n",
       "d", ".", "j", "p", "g", "\"", "/", ">", "<", "t", "e", "x", "t", ">", "{", "{",
       "U", "N", "I", "_", "E", "N", "}", "}", " ", "{", "{", "U", "N", "I", "_", "C",
       "N", "}", "}", "<", "/", "t", "e", "x", "t", ">", "<", "t", "e", "x", "t", ">",
       "{", "{", "N", "A", "M", "E", "_", "C", "N", "}", "}", " ", "{", "{", "N", "A",
       "M", "E", "_", "E", "N", "}", "}", "<", "/", "t", "e", "x", "t", ">", "<", "i",
       "m", "a", "g", "e", " ", "h", "r", "e", "f", "=", "\"", "x", "i", "b", "a", "o",
       "b", "a", "c", "k", "g", "r", "o", "u", "n", "d", ".", "j", "p", "g", "\"", "/",
       ">", "<", "/", "s", "v", "g", ">">>

TPL_NO_SVG ==
    <<"<", "p", ">", "{", "{", "N", "A", "M", "E", "_", "C", "N", "}", "}", " ", "{",
       "{", "N", "A", "M", "E", "_", "E", "N", "}", "}", " ", "{", "{", "U", "N", "I",
       "_", "E", "N", "}", "}", " ", "{", "{", "U", "N", "I", "_", "C", "N", "}", "}",
       "<", "/", "p", ">">>

Templates == {TPL_FULL, TPL_PLAIN, TPL_NO_SVG}

\* xibaobackground.jpg: absent, or its bytes (none, one to four of them).
BgFiles ==
    {None, Some(<<>>), Some(<<255>>), Some(<<255, 216>>), Some(<<255, 216, 255>>),
     Some(<<255, 216, 255, 224>>)}

(***************************************************************************)
(* The helpers of main.py and the rendering part of generate.              *)
(***************************************************************************)
\* The value of a present optional.
Val(opt) == CHOOSE v \in opt : TRUE

\* Python truthiness of an optional str: None and "" are both false.
Truthy(opt) == opt # None /\ Val(opt) # <<>>

\* Mutant of check_auth: any session_id cookie is accepted.
check_auth_AnyCookie(token) == token # None

\* token is request.cookies.get("session_id").
check_auth(token) == token = Some(SESSION_TOKEN)

\* get_image_base64(file_name), bg being the file's bytes if it exists.
get_image_base64(bg) == IF bg # None THEN Some(b64encode(Val(bg))) ELSE None

\* df[df[column] == value] as the set of matching row numbers, and iloc[0].
s_match(student_name) == {i \in DOMAIN NameDf : NameDf[i].NAME_CN = student_name}

\* Mutant of u_match: the frame is not filtered by the name.
u_match_NoFilter(uni_name) == DOMAIN UniDf

u_match(uni_name) == {i \in DOMAIN UniDf : UniDf[i].en = uni_name}

iloc0(match) == CHOOSE i \in match : \A j \in match : i <= j

\* "Inject Background Image": svg_content after lines 149-153.
InjectBackground(svg_content, bg) ==
    LET bg_b64 == get_image_base64(bg) IN
    IF Truthy(bg_b64)
    THEN Replace(svg_content, BG_NAME, DATA_URI_PREFIX \o Val(bg_b64))
    ELSE svg_content

\* "Smart text scaling logic": en_attr and cn_attr for university row u.
\* Mutant of en_attr: a name of exactly 25 characters is compressed too.
en_attr_AtThreshold(u) ==
    IF Len(Str(u.en)) >= EN_THRESHOLD THEN COMPRESS_ATTR ELSE <<>>

en_attr(u) == IF Len(Str(u.en)) > EN_THRESHOLD THEN COMPRESS_ATTR ELSE <<>>

cn_attr(u) == IF Len(Str(u.cn)) > CN_THRESHOLD THEN COMPRESS_ATTR ELSE <<>>

\* "Replace placeholders": svg_content after lines 173-180, in that order.
ReplacePlaceholders(svg_content, s, u) ==
    LET a == Replace(svg_content, TOK_UNI_EN_ATTR, en_attr(u))
        b == Replace(a, TOK_UNI_CN_ATTR, cn_attr(u))
        c == Replace(b, TOK_UNI_CN, Str(u.cn))
        d == Replace(c, TOK_UNI_EN, Str(u.en))
        e == Replace(d, TOK_NAME_CN, Str(s.NAME_CN))
    IN  Replace(e, TOK_NAME_EN, Str(s.NAME_EN) \o <<" ">> \o Str(s.FAM_NAME))

\* output_filename of student row s.
output_filename(s) == "cert_" \o s.ID \o ".png"

\* The PNG that a screenshot of the svg element of this markup gives: the
\* rendering is not modelled, an image is known by the markup it shows.
Png(svg_content) == [png_of |-> svg_content]

\* What page.query_selector("svg") returns for a page with this content: the
\* handle of an svg element, or None when the markup has none.
query_selector(svg_content) ==
    IF Contains(svg_content, SVG_TAG) THEN "ElementHandle" ELSE "None"

(***************************************************************************)
(* Responses.  One shape for all of them; "" and 0 where a part does not   *)
(* apply.  cookie_op is what the response tells the client to do with its  *)
(* session_id cookie.                                                      *)
(***************************************************************************)
Response(kind, status, location, template, text, image_url) ==
    [kind |-> kind, status |-> status, location |-> location, template |-> template,
     text |-> text, image_url |-> image_url,
     cookie_op |-> "none", cookie_value |-> "", max_age |-> 0]

NoResponse == Response("", 0, "", "", "", "")

RedirectResponse(url, status) == Response("redirect", status, url, "", "", "")

TemplateResponse(name, error) == Response("template", 200, "", name, error, "")

\* A handler that raised: the framework answers 500.
ServerError == Response("error", 500, "", "", "", "")

\* The static directory: each certificate path holds a PNG or nothing.
CertPaths == {output_filename(NameDf[i]) : i \in DOMAIN NameDf}

\* A certificate left in the static directory by an earlier run.
OLD_PNG == Png(<<"o", "l", "d">>)

(***************************************************************************)
(* State.                                                                  *)
(***************************************************************************)
VARIABLES
    lifespan_pc,    \* where lifespan is: "start", "serving", "stopped", "failed"
    browser,        \* the Chromium process: "none", "ready", "closed"
    app_browser,    \* app.state.browser: 0, or the number of the launch it holds
    launches,       \* how many times chromium.launch has returned a browser
    closes,         \* how many times browser.close has been called
    template,       \* the text of xibaov1.svg
    bg_file,        \* the bytes of xibaobackground.jpg, None if absent
    files,          \* the static directory: CertPaths -> optional PNG
    cookie,         \* the client's session_id cookie, None if it has none
    logged_in,      \* whether a POST /login with the admin password was answered
    last,           \* the last exchange on /login, /logout and /
    reqs            \* the POST /generate requests, by slot

vars ==
    <<lifespan_pc, browser, app_browser, launches, closes, template, bg_file, files,
      cookie, logged_in, last, reqs>>

Req == 1..MaxReq

Passwords == {ADMIN_PASSWORD, "secret_password_1234", "admin"}

IdleReq ==
    [pc |-> "idle", cookie |-> None, student_name |-> <<>>, uni_name |-> <<>>,
     loaded |-> FALSE, s |-> 0, u |-> 0, en_attr |-> <<>>, cn_attr |-> <<>>,
     svg_content |-> <<>>,
     output_filename |-> "", browser |-> 0, context |-> "none", page |-> "none",
     svg_element |-> "unset", shot |-> FALSE, response |-> NoResponse]

NoExchange == [route |-> "", cookie |-> None, password |-> "", response |-> NoResponse]

\* The environment both specifications share at start.
InitCommon ==
    /\ lifespan_pc = "start"
    /\ browser = "none"
    /\ app_browser = 0
    /\ launches = 0
    /\ closes = 0
    /\ logged_in = FALSE
    /\ last = NoExchange
    /\ reqs = [r \in Req |-> IdleReq]

\* One client, every file variant.
Init ==
    /\ InitCommon
    /\ template \in Templates
    /\ bg_file \in BgFiles
    /\ files \in {[p \in CertPaths |-> None],
                  [p \in CertPaths |-> IF p = "cert_S001.png" THEN Some(OLD_PNG) ELSE None]}
    /\ cookie \in {None, Some("stale_token")}

\* Concurrent requests of clients that are logged in or not.
InitConcurrent ==
    /\ InitCommon
    /\ template \in {TPL_FULL, TPL_NO_SVG}
    /\ bg_file = Some(<<255, 216, 255>>)
    /\ files = [p \in CertPaths |-> None]
    /\ cookie \in {None, Some(SESSION_TOKEN)}

(***************************************************************************)
(* lifespan: the browser is launched before the application serves, and    *)
(* closed after it has stopped serving.  The server runs the part after    *)
(* the yield once no request is in flight.                                 *)
(***************************************************************************)
Serving == lifespan_pc = "serving"

InFlight(r) == reqs[r].pc \notin {"idle", "done"}

\* chromium.launch returned: app.state.browser is set and the app serves.
Startup ==
    /\ lifespan_pc = "start"
    /\ lifespan_pc' = "serving"
    /\ browser' = "ready"
    /\ launches' = launches + 1
    /\ app_browser' = launches + 1
    /\ UNCHANGED <<closes, template, bg_file, files, cookie, logged_in, last, reqs>>

\* chromium.launch raised: the application never serves.
StartupFail ==
    /\ lifespan_pc = "start"
    /\ lifespan_pc' = "failed"
    /\ UNCHANGED <<browser, app_browser, launches, closes, template, bg_file, files,
                   cookie, logged_in, last, reqs>>

\* browser.close() at shutdown; it closes every context and page still open.
Shutdown ==
    /\ Serving
    /\ \A r \in Req : ~InFlight(r)
    /\ lifespan_pc' = "stopped"
    /\ browser' = "closed"
    /\ closes' = closes + 1
    /\ reqs' = [r \in Req |->
                 [reqs[r] EXCEPT
                    !.context = IF @ = "open" THEN "closed" ELSE @,
                    !.page = IF @ = "open" THEN "closed" ELSE @]]
    /\ UNCHANGED <<app_browser, launches, template, bg_file, files, cookie, logged_in,
                   last>>

(***************************************************************************)
(* /login, /logout and /.  The client keeps the cookie a response sets and *)
(* drops the one a response deletes.                                       *)
(***************************************************************************)
set_cookie(response, value, max_age) ==
    [response EXCEPT !.cookie_op = "set", !.cookie_value = value, !.max_age = max_age]

delete_cookie(response) ==
    [response EXCEPT !.cookie_op = "delete", !.cookie_value = "", !.max_age = 0]

ClientCookie(old, response) ==
    IF response.cookie_op = "set" THEN Some(response.cookie_value)
    ELSE IF response.cookie_op = "delete" THEN None
    ELSE old

\* Mutant of login: the cookie is set before the password is looked at.
login_CookieFirst(password) ==
    set_cookie(IF password = ADMIN_PASSWORD
               THEN RedirectResponse("/", 303)
               ELSE TemplateResponse("login.html", "Incorrect Password"),
               SESSION_TOKEN, COOKIE_MAX_AGE)

\* The response of POST /login.
login(password) ==
    IF password = ADMIN_PASSWORD
    THEN set_cookie(RedirectResponse("/", 303), SESSION_TOKEN, COOKIE_MAX_AGE)
    ELSE TemplateResponse("login.html", "Incorrect Password")

\* The response of GET /logout.
logout == delete_cookie(RedirectResponse("/login", 307))

\* The response of GET / (the datasets load).
index(c) ==
    IF ~check_auth(c) THEN RedirectResponse("/login", 307)
    ELSE TemplateResponse("index.html", "")

Exchange(route, c, password, response) ==
    /\ Serving
    /\ last' = [route |-> route, cookie |-> c, password |-> password,
                response |-> response]
    /\ cookie' = ClientCookie(cookie, response)
    /\ UNCHANGED <<lifespan_pc, browser, app_browser, launches, closes, template,
                   bg_file, files, reqs>>

LoginPage ==
    /\ Exchange("GET /login", None, "", TemplateResponse("login.html", ""))
    /\ UNCHANGED logged_in

Login ==
    \E password \in Passwords :
        /\ Exchange("POST /login", None, password, login(password))
        /\ logged_in' = (logged_in \/ password = ADMIN_PASSWORD)

Logout ==
    /\ Exchange("GET /logout", None, "", logout)
    /\ UNCHANGED logged_in

Index ==
    /\ Exchange("GET /", cookie, "", index(cookie))
    /\ UNCHANGED logged_in

(***************************************************************************)
(* POST /generate.  The handler runs without interruption up to each       *)
(* await; every await on the browser is a step of its own.                 *)
(***************************************************************************)
Others == <<lifespan_pc, browser, app_browser, launches, closes, template, bg_file,
            cookie, logged_in, last>>

\* The handler up to its first await: the auth check, the lookup and the
\* rendering of svg_content; it ends by calling browser.new_context.
generate(r, c, student_name, uni_name) ==
    IF ~check_auth(c)
    THEN [r EXCEPT !.pc = "done", !.cookie = c,
                   !.response = RedirectResponse("/login", 307)]
    ELSE IF s_match(student_name) = {} \/ u_match(uni_name) = {}
    THEN [r EXCEPT !.pc = "done", !.cookie = c, !.loaded = TRUE,
                   !.student_name = student_name, !.uni_name = uni_name,
                   !.response = Response("text", 200, "", "", "Error: Data not found.", "")]
    ELSE LET s == iloc0(s_match(student_name))
             u == iloc0(u_match(uni_name))
         IN  [r EXCEPT !.pc = "new_context", !.cookie = c, !.loaded = TRUE,
                       !.student_name = student_name, !.uni_name = uni_name,
                       !.s = s, !.u = u,
                       !.en_attr = en_attr(UniDf[u]), !.cn_attr = cn_attr(UniDf[u]),
                       !.svg_content =
                           ReplacePlaceholders(InjectBackground(template, bg_file),
                                               NameDf[s], UniDf[u]),
                       !.output_filename = output_filename(NameDf[s]),
                       !.browser = app_browser]

GenerateStart(slots, students, unis) ==
    \E r \in slots, student_name \in students, uni_name \in unis :
        /\ Serving
        /\ reqs[r].pc = "idle"
        /\ IF r = 1 THEN TRUE ELSE reqs[r - 1].pc # "idle"
        /\ reqs' = [reqs EXCEPT ![r] = generate(@, cookie, student_name, uni_name)]
        /\ UNCHANGED <<Others, files>>

\* One await of request r returned: pc moves on and the fields change.
Step(r, from, next) ==
    /\ Serving
    /\ reqs[r].pc = from
    /\ reqs' = [reqs EXCEPT ![r] = next]
    /\ UNCHANGED Others

\* Request r after one of its awaits raised: nothing after it runs and the
\* client gets 500.
Raised(r) == [reqs[r] EXCEPT !.pc = "done", !.response = ServerError]

\* Mutant of NewContext: each request launches a browser of its own.
NewContext_Relaunch(slots) ==
    \E r \in slots :
        /\ Serving
        /\ reqs[r].pc = "new_context"
        /\ launches' = launches + 1
        /\ reqs' = [reqs EXCEPT ![r].pc = "new_page", ![r].context = "open",
                                ![r].browser = launches + 1]
        /\ UNCHANGED <<lifespan_pc, browser, app_browser, closes, template, bg_file,
                       files, cookie, logged_in, last>>

NewContext(slots) ==
    \E r \in slots :
        /\ Step(r, "new_context", [reqs[r] EXCEPT !.pc = "new_page", !.context = "open"])
        /\ UNCHANGED files

NewPage(slots) ==
    \E r \in slots :
        /\ Step(r, "new_page", [reqs[r] EXCEPT !.pc = "set_content", !.page = "open"])
        /\ UNCHANGED files

SetContent(slots) ==
    \E r \in slots :
        /\ Step(r, "set_content", [reqs[r] EXCEPT !.pc = "wait_for_timeout"])
        /\ UNCHANGED files

\* page.set_content did not see the load event in time.
SetContentFail(slots) ==
    \E r \in slots :
        /\ Step(r, "set_content", Raised(r))
        /\ UNCHANGED files

WaitForTimeout(slots) ==
    \E r \in slots :
        /\ Step(r, "wait_for_timeout", [reqs[r] EXCEPT !.pc = "query_selector"])
        /\ UNCHANGED files

\* Mutant of QuerySelector: the screenshot is taken without looking at what
\* query_selector returned.
QuerySelector_NoGuard(slots) ==
    \E r \in slots :
        /\ Step(r, "query_selector",
                [reqs[r] EXCEPT !.svg_element = query_selector(reqs[r].svg_content),
                                !.pc = "screenshot"])
        /\ UNCHANGED files

QuerySelector(slots) ==
    \E r \in slots :
        LET svg_element == query_selector(reqs[r].svg_content) IN
        /\ Step(r, "query_selector",
                [reqs[r] EXCEPT !.svg_element = svg_element,
                                !.pc = IF svg_element # "None" THEN "screenshot"
                                      ELSE "page_close"])
        /\ UNCHANGED files

\* svg_element.screenshot(path=output_path, ...) wrote the PNG.
Screenshot(slots) ==
    \E r \in slots :
        /\ Step(r, "screenshot", [reqs[r] EXCEPT !.pc = "page_close", !.shot = TRUE])
        /\ files' = [files EXCEPT ![reqs[r].output_filename] =
                                      Some(Png(reqs[r].svg_content))]

\* The screenshot took more than 60 s, or the browser reported an error.
ScreenshotFail(slots) ==
    \E r \in slots :
        /\ Step(r, "screenshot", Raised(r))
        /\ UNCHANGED files

PageClose(slots) ==
    \E r \in slots :
        /\ Step(r, "page_close", [reqs[r] EXCEPT !.pc = "context_close", !.page = "closed"])
        /\ UNCHANGED files

\* context.close() returned and the handler returns the page with the link.
ContextClose(slots) ==
    \E r \in slots :
        /\ Step(r, "context_close",
                [reqs[r] EXCEPT
                    !.pc = "done", !.context = "closed",
                    !.response = Response("template", 200, "", "index.html", "",
                                          "/static/" \o reqs[r].output_filename)])
        /\ UNCHANGED files

(***************************************************************************)
(* Specifications.                                                         *)
(***************************************************************************)
\* One client using every route, every dataset row and every file variant;
\* it sends one POST /generate.
Next ==
    \/ Startup
    \/ StartupFail
    \/ Shutdown
    \/ LoginPage
    \/ Login
    \/ Logout
    \/ Index
    \/ GenerateStart({1}, AllStudentNames, AllUniNames)
    \/ NewContext({1})
    \/ NewPage({1})
    \/ SetContent({1})
    \/ SetContentFail({1})
    \/ WaitForTimeout({1})
    \/ QuerySelector({1})
    \/ Screenshot({1})
    \/ ScreenshotFail({1})
    \/ PageClose({1})
    \/ ContextClose({1})

Spec == Init /\ [][Next]_vars

\* MaxReq requests in flight together, in every interleaving of their awaits.
NextConcurrent ==
    \/ Startup
    \/ StartupFail
    \/ Shutdown
    \/ GenerateStart(Req, FewStudentNames, FewUniNames)
    \/ NewContext(Req)
    \/ NewPage(Req)
    \/ SetContent(Req)
    \/ SetContentFail(Req)
    \/ WaitForTimeout(Req)
    \/ QuerySelector(Req)
    \/ Screenshot(Req)
    \/ ScreenshotFail(Req)
    \/ PageClose(Req)
    \/ ContextClose(Req)

SpecConcurrent == InitConcurrent /\ [][NextConcurrent]_vars

(***************************************************************************)
(* Properties.                                                             *)
(***************************************************************************)
\* The request in slot r has been received.
Received(r) == reqs[r].pc # "idle"

\* The request in slot r got past the lookup and rendered its markup.
Rendered(r) == reqs[r].s # 0

RedirectsToLogin(response) == response.kind = "redirect" /\ response.location = "/login"

\* No certificate has been written since the start.
NoNewFile == \A p \in CertPaths : files[p] \in {None, Some(OLD_PNG)}

\* The request in slot r touched neither the browser nor the static directory.
NoCapture(r) ==
    /\ reqs[r].context = "none"
    /\ reqs[r].page = "none"
    /\ reqs[r].browser = 0
    /\ ~reqs[r].shot

\* s contains a placeholder token: "{{", and "}}" somewhere after it.
HasPlaceholder(s) ==
    LET opens == {i \in 1..(Len(s) - 1) : s[i] = "{" /\ s[i + 1] = "{"}
        closings == {j \in 1..(Len(s) - 1) : s[j] = "}" /\ s[j + 1] = "}"}
    IN  \E i \in opens, j \in closings : i + 2 <= j

\* C1: a protected route serves a request whose session_id cookie is the valid
\* token and answers any other cookie, or none, with a redirect to /login; a
\* POST /generate without the valid cookie loads no data, opens no context or
\* page and writes no file.
C1_ProtectedRoutes ==
    /\ \A r \in Req :
        Received(r) =>
            IF reqs[r].cookie = Some("valid_session_token")
            THEN reqs[r].loaded /\ ~RedirectsToLogin(reqs[r].response)
            ELSE /\ reqs[r].pc = "done"
                 /\ RedirectsToLogin(reqs[r].response)
                 /\ ~reqs[r].loaded
                 /\ NoCapture(r)
                 /\ NoNewFile
    /\ last.route = "GET /" =>
            IF last.cookie = Some("valid_session_token")
            THEN last.response.kind = "template" /\ last.response.template = "index.html"
            ELSE RedirectsToLogin(last.response)

\* A POST /generate with a stale cookie was redirected, and GET / was served
\* after a login.
C1_Witness ==
    /\ reqs[1].pc = "done"
    /\ reqs[1].cookie = Some("stale_token")
    /\ last.route = "GET /"
    /\ last.cookie = Some(SESSION_TOKEN)

\* C2: POST /login with the admin password sets session_id to the valid token
\* for 7 days and redirects to /; with any other password it renders the login
\* form with an error and sets no cookie, so the client holds the valid cookie
\* only after a login with the admin password.
C2_Login ==
    /\ last.route = "POST /login" =>
            IF last.password = "secret_password_123"
            THEN /\ last.response.kind = "redirect"
                 /\ last.response.location = "/"
                 /\ last.response.cookie_op = "set"
                 /\ last.response.cookie_value = "valid_session_token"
                 /\ last.response.max_age = 7 * 24 * 60 * 60
            ELSE /\ last.response.kind = "template"
                 /\ last.response.template = "login.html"
                 /\ last.response.text = "Incorrect Password"
                 /\ last.response.cookie_op = "none"
    /\ cookie = Some("valid_session_token") => logged_in

\* A login with a wrong password was just answered, and no login has succeeded.
C2_Witness ==
    /\ last.route = "POST /login"
    /\ last.password = "secret_password_1234"
    /\ ~logged_in
    /\ cookie = Some("stale_token")

\* C3: an authenticated POST /generate whose student_name is no NAME_CN of
\* namelist.csv, or whose uni_name is no English Name of uni.csv, is answered
\* with the error text and captures nothing: no context, no page, no file.
C3_DataNotFound ==
    \A r \in Req :
        (/\ Received(r)
         /\ reqs[r].cookie = Some(SESSION_TOKEN)
         /\ \/ \A i \in DOMAIN NameDf : NameDf[i].NAME_CN # reqs[r].student_name
            \/ \A i \in DOMAIN UniDf : UniDf[i].en # reqs[r].uni_name)
        => /\ reqs[r].pc = "done"
           /\ reqs[r].response.kind = "text"
           /\ reqs[r].response.text = "Error: Data not found."
           /\ NoCapture(r)
           /\ NoNewFile

\* A request for a student of the list and a university that is not in uni.csv
\* was answered, an older certificate being in the static directory.
C3_Witness ==
    /\ reqs[1].pc = "done"
    /\ reqs[1].cookie = Some(SESSION_TOKEN)
    /\ reqs[1].student_name = NameDf[1].NAME_CN
    /\ reqs[1].uni_name = NO_UNI
    /\ files["cert_S001.png"] = Some(OLD_PNG)

\* C4: the markup that generate hands to the capture contains no placeholder
\* token {{...}}, whatever the cells of the student row and the university row.
C4_NoPlaceholderLeft == \A r \in Req : Rendered(r) => ~HasPlaceholder(reqs[r].svg_content)

\* "<text ", which opens the two university lines of TPL_FULL.
TEXT_OPEN == <<"<", "t", "e", "x", "t", " ">>

\* C5: the English attribute placeholder becomes the compression attributes
\* exactly when the English name has more than 25 characters, the Chinese one
\* exactly when the Chinese name has more than 15; at 25 and at 15, and below,
\* the placeholder becomes the empty string; neither decision looks at the
\* other name.
C5_Compression ==
    \A r \in Req :
        Rendered(r) =>
            LET u == UniDf[reqs[r].u]
                long_en == Len(u.en) > 25
                long_cn == u.cn # NAN /\ Len(u.cn) > 15
                svg == reqs[r].svg_content
            IN  /\ reqs[r].en_attr = IF long_en THEN COMPRESS_ATTR ELSE <<>>
                /\ reqs[r].cn_attr = IF long_cn THEN COMPRESS_ATTR ELSE <<>>
                /\ ~Contains(svg, TOK_UNI_EN_ATTR)
                /\ ~Contains(svg, TOK_UNI_CN_ATTR)
                /\ template = TPL_FULL =>
                    /\ Contains(svg, TEXT_OPEN \o reqs[r].en_attr \o <<">">> \o u.en \o <<"<">>)
                    /\ Contains(svg, TEXT_OPEN \o reqs[r].cn_attr \o <<">">> \o Str(u.cn)
                                     \o <<"<">>)
                    /\ Contains(svg, COMPRESS_ATTR) <=> (long_en \/ long_cn)

\* The full template was rendered for the university whose English name has
\* exactly 25 characters and whose Chinese name has 16.
C5_Witness ==
    /\ template = TPL_FULL
    /\ Rendered(1)
    /\ Len(UniDf[reqs[1].u].en) = 25
    /\ Len(UniDf[reqs[1].u].cn) = 16
    /\ reqs[1].en_attr = <<>>
    /\ reqs[1].cn_attr = COMPRESS_ATTR

\* C6: a request that has finished has closed the context and the page it
\* opened, also when set_content or the screenshot failed.
C6_ClosedWhenFinished ==
    \A r \in Req :
        reqs[r].pc = "done" => reqs[r].context # "open" /\ reqs[r].page # "open"

\* C7, in every state: at most one launch and one close; the browser is ready
\* exactly between them; a request is received only after the launch; a
\* request that renders uses the browser of that one launch; a context or page
\* is open only while the browser is ready; the close comes with the shutdown.
C7_State ==
    /\ launches <= 1
    /\ closes <= 1
    /\ (browser = "ready") <=> (launches = 1 /\ closes = 0)
    /\ (closes = 1) <=> (lifespan_pc = "stopped")
    /\ \A r \in Req :
        /\ Received(r) => launches = 1
        /\ Rendered(r) => reqs[r].browser = 1 /\ app_browser = 1
        /\ (reqs[r].context = "open" \/ reqs[r].page = "open") => browser = "ready"

\* C7, in every step: a context or a page is opened, and a screenshot written,
\* only in a step in which the browser is and stays ready.
C7_Step ==
    \A r \in Req :
        (\/ reqs[r].context # "open" /\ reqs'[r].context = "open"
         \/ reqs[r].page # "open" /\ reqs'[r].page = "open"
         \/ ~reqs[r].shot /\ reqs'[r].shot)
        => browser = "ready" /\ browser' = "ready"

\* C7: the browser is launched once, before any request is served, and closed
\* once, at shutdown; every capture uses that browser while it is ready, and
\* no page is opened before the launch or after the close.
C7_BrowserLifecycle == []C7_State /\ [][C7_Step]_vars

\* Two requests took their screenshots and the browser was then closed.
C7_Witness ==
    /\ closes = 1
    /\ browser = "closed"
    /\ reqs[1].shot
    /\ reqs[2].shot

\* C8: without the background file the name xibaobackground.jpg stays in the
\* markup as it is; with the file, every occurrence of the name is replaced by
\* the base64 data URI of its bytes.
C8_Background ==
    \A r \in Req :
        (Rendered(r) /\ Contains(template, BG_NAME)) =>
            IF bg_file = None
            THEN Contains(reqs[r].svg_content, BG_NAME)
            ELSE /\ ~Contains(reqs[r].svg_content, BG_NAME)
                 /\ Contains(reqs[r].svg_content,
                             DATA_URI_PREFIX \o b64encode(Val(bg_file)))

\* C9: when query_selector finds no svg element the screenshot is skipped: no
\* file is written and an existing one stays, nothing is raised, the page and
\* the context are closed, and the page with the link to cert_<ID>.png is
\* returned.
C9_NoSvgElement ==
    \A r \in Req :
        /\ (reqs[r].pc \in {"screenshot", "page_close", "context_close"}
            /\ ~Contains(reqs[r].svg_content, SVG_TAG))
           => reqs[r].svg_element = "None"
        /\ reqs[r].svg_element = "None" =>
            /\ reqs[r].pc \in {"page_close", "context_close", "done"}
            /\ ~reqs[r].shot
            /\ NoNewFile
            /\ reqs[r].response.kind # "error"
            /\ reqs[r].pc = "done" =>
                /\ reqs[r].page = "closed"
                /\ reqs[r].context = "closed"
                /\ reqs[r].response.kind = "template"
                /\ reqs[r].response.template = "index.html"
                /\ reqs[r].response.image_url
                     = "/static/cert_" \o NameDf[reqs[r].s].ID \o ".png"

\* A request for the first student returned its page without a screenshot, the
\* older certificate of that student still being in the static directory.
C9_Witness ==
    /\ reqs[1].pc = "done"
    /\ reqs[1].svg_element = "None"
    /\ reqs[1].response.image_url = "/static/cert_S001.png"
    /\ files["cert_S001.png"] = Some(OLD_PNG)
    /\ browser = "ready"

\* The step in which a request that took its screenshot returns its page: the
\* file at its output path is the capture of its own markup.
C10_Step ==
    \A r \in Req :
        (reqs[r].pc = "context_close" /\ reqs'[r].pc = "done" /\ reqs[r].shot)
        => files'[reqs[r].output_filename] = Some(Png(reqs[r].svg_content))

\* C10: under any interleaving of concurrent requests, when a request (one that
\* took its screenshot) returns the page with the link to cert_<ID>.png, the
\* file at that path is the capture of the markup of that same request.
C10_OwnCapture == [][C10_Step]_vars

====
